---- MODULE Spec2Model ----
(***************************************************************************)
(* Model of railway_server.py: the DeviceRegistry (devices, sessions, the  *)
(* cleanup thread), the Socket.IO signaling handlers and the REST routes   *)
(* that touch the registry.                                                *)
(*                                                                         *)
(* Every Socket.IO handler and every REST route is one atomic action.  The *)
(* cleanup thread (_cleanup_expired) runs concurrently with them and is    *)
(* modelled step by step: taking current_time, each step of the two dict   *)
(* iterations and each del are separate actions.                           *)
(*                                                                         *)
(* The Redis mirror is modelled by whether its calls are made and whether   *)
(* they raise (variable mirror); what the mirror holds is never read by    *)
(* the program and is left out.  In a run that starts in Init,             *)
(* redis_client is None and every "if redis_client:" block is skipped.     *)
(*                                                                         *)
(* Python dicts (event data, request bodies) are TLA+ functions whose       *)
(* DOMAIN is the set of keys present; dict.get is the operator Get.        *)
(* The fields name, public_ip, local_ip, device_type and version of a      *)
(* device record are stored and echoed only; they are left out.            *)
(***************************************************************************)
EXTENDS Integers, FiniteSets, Sequences, TLC

\* ------------------------------------------------------------------ bounds
\* The last clock reading the model takes.
MaxTime == 3602

\* ------------------------------------------------------- program constants
\* get_available_servers: time.time() - last_seen < 300
FreshWindow == 300
\* _cleanup_expired: current_time - last_seen > 600
DeviceExpiry == 600
\* _cleanup_expired: current_time - last_activity > 3600
SessionExpiry == 3600
\* _cleanup_expired: time.sleep(60)
SweepInterval == 60

\* ------------------------------------------------------------- input sets
\* Python's None, also what dict.get returns for a missing key.
NoValue == "None"

DeviceIds == {"dA", "dB"}

\* What uuid.uuid4() can return; nothing in the code excludes a value that
\* is already a key of self.sessions.
SessionIds == {"s1", "s2"}

\* request.sid of the Socket.IO connections.
Sids == {"c1", "c2", "c3"}

CapabilityLists == {{"client"}, {"server"}}

Payloads == {"sdp_x"}

\* The values time.time() takes, in increasing order of reading: the start,
\* one freshness window later, just past the device expiry, and MaxTime,
\* which is past the session expiry.
ClockReadings == {0, 300, 601, MaxTime}

\* ------------------------------------------------------------------ state
VARIABLES
    devices,        \* DeviceRegistry.devices: device_id -> record
    sessions,       \* DeviceRegistry.sessions: session_id -> record
    now,            \* the value time.time() returns
    connected,      \* the sids of the open Socket.IO connections
    rooms,          \* sid -> the device ids d whose room device_<d> it joined
    out,            \* what the last step emitted or returned (NoOutput: nothing)
    reaper_pc,      \* position of the cleanup thread
    sleep_until,    \* when its time.sleep(60) returns
    current_time,   \* its local current_time
    iter_len,       \* dict size recorded by the iteration under way
    iter_todo,      \* keys the iteration has not visited yet
    expired,        \* expired_devices / expired_sessions being built or deleted
    mirror,         \* "none": redis_client is None; "up" / "down": it is a
                    \* client and the Redis server answers / does not answer
    pending         \* <<data>>: a start_session request with body data is
                    \* about to call update_device_status; <<>>: none is

vars == <<devices, sessions, now, connected, rooms, out,
          reaper_pc, sleep_until, current_time, iter_len, iter_todo, expired,
          mirror, pending>>

registry_vars == <<devices, sessions>>
transport_vars == <<connected, rooms>>
reaper_vars == <<reaper_pc, sleep_until, current_time, iter_len, iter_todo, expired>>

\* ---------------------------------------------------------------- helpers
\* dict.get(key, default)
Get(data, key, default) == IF key \in DOMAIN data THEN data[key] ELSE default

\* Python truthiness of an identifier read with dict.get: None and "" are falsy.
Falsy(x) == x \in {NoValue, ""}

\* d[k] = v on a dict
Put(d, k, v) == [x \in DOMAIN d \cup {k} |-> IF x = k THEN v ELSE d[x]]

\* del d[k]
Del(d, k) == [x \in DOMAIN d \ {k} |-> d[x]]

EmptyDict == [x \in {} |-> NoValue]

\* The connections a Socket.IO emit(..., room="device_<d>") reaches.
RoomMembers(rms, conn, d) == {sid \in conn : d \in rms[sid]}

\* ------------------------------------------------- DeviceRegistry methods
\* Variant of register_device whose default for a missing 'capabilities'
\* key is ['server'].
register_device_default_server(devs, device_id, device_info, t) ==
    Put(devs, device_id,
        [id           |-> device_id,
         status       |-> "online",
         last_seen    |-> t,
         capabilities |-> Get(device_info, "capabilities", {"server"})])

\* DeviceRegistry.register_device at time t: creates or overwrites the record.
register_device(devs, device_id, device_info, t) ==
    Put(devs, device_id,
        [id           |-> device_id,
         status       |-> "online",
         last_seen    |-> t,
         capabilities |-> Get(device_info, "capabilities", {"client"})])

\* An update_device_status that creates the record of an unknown id.
update_device_status_upsert(devs, device_id, status, t) ==
    IF device_id \in DOMAIN devs
    THEN [devs EXCEPT ![device_id].status = status,
                      ![device_id].last_seen = t]
    ELSE Put(devs, device_id,
             [id           |-> device_id,
              status       |-> status,
              last_seen    |-> t,
              capabilities |-> {"client"}])

\* DeviceRegistry.update_device_status at time t: nothing for an unknown id.
update_device_status(devs, device_id, status, t) ==
    IF device_id \in DOMAIN devs
    THEN [devs EXCEPT ![device_id].status = status,
                      ![device_id].last_seen = t]
    ELSE devs

\* Variant of get_available_servers without the last_seen test.
get_available_servers_no_freshness(devs, t) ==
    {[id |-> d, last_seen |-> devs[d].last_seen] :
        d \in {x \in DOMAIN devs :
                 /\ devs[x].status = "online"
                 /\ "server" \in devs[x].capabilities}}

\* DeviceRegistry.get_available_servers at time t (the entries of the list;
\* their order, the dict's insertion order, is not modelled).
get_available_servers(devs, t) ==
    {[id |-> d, last_seen |-> devs[d].last_seen] :
        d \in {x \in DOMAIN devs :
                 /\ devs[x].status = "online"
                 /\ "server" \in devs[x].capabilities
                 /\ t - devs[x].last_seen < FreshWindow}}

\* DeviceRegistry.create_session at time t; session_id is the value
\* uuid.uuid4() returned.  The assignment overwrites an existing key.
create_session(sess, session_id, server_id, client_id, t) ==
    Put(sess, session_id,
        [id            |-> session_id,
         server_id     |-> server_id,
         client_id     |-> client_id,
         status        |-> "connecting",
         created_at    |-> t,
         last_activity |-> t])

\* DeviceRegistry.update_session_status at time t: nothing for an unknown id.
update_session_status(sess, session_id, status, t) ==
    IF session_id \in DOMAIN sess
    THEN [sess EXCEPT ![session_id].status = status,
                      ![session_id].last_activity = t]
    ELSE sess

\* DeviceRegistry.get_session: <<record>>, or <<>> for dict.get's None.
get_session(sess, session_id) ==
    IF session_id \in DOMAIN sess THEN <<sess[session_id]>> ELSE <<>>

\* _cleanup_expired's two list-comprehension conditions.
DeviceIsExpired(device_data, ct) == ct - device_data.last_seen > DeviceExpiry

SessionIsExpired(session_data, ct) == ct - session_data.last_activity > SessionExpiry

\* "if redis_client: redis_client.hset(...)" (or hdel): the call is made when
\* redis_client is a client, and raises when the server does not answer.
MirrorRaises == mirror = "down"

\* ------------------------------------------------------------ event data
\* register_device events and start_session bodies.
RegisterData ==
    [device_id : DeviceIds, capabilities : CapabilityLists]
        \cup [device_id : DeviceIds]
        \cup {EmptyDict}

StartData ==
    [device_id : DeviceIds, device_type : {"server"}, capabilities : CapabilityLists]
        \cup [device_id : DeviceIds, device_type : {"server"}]
        \cup [device_id : DeviceIds]
        \cup {EmptyDict}

\* webrtc_offer / webrtc_answer / ice_candidate events.
RelayData ==
    [session_id : SessionIds, target_device : DeviceIds, payload : Payloads]
        \cup [session_id : SessionIds, payload : Payloads]
        \cup [target_device : DeviceIds, payload : Payloads]

\* session_started / session_ended events and stop_session bodies.
SessionData == [session_id : SessionIds] \cup {EmptyDict}

NoOutput == [kind |-> "none"]

\* ------------------------------------------------------------------ Init
\* The module has been imported: device_registry = DeviceRegistry() has
\* started the cleanup thread, which is in its first time.sleep(60).
Init ==
    /\ devices = EmptyDict
    /\ sessions = EmptyDict
    /\ now = 0
    /\ connected = {}
    /\ rooms = [sid \in Sids |-> {}]
    /\ out = NoOutput
    /\ reaper_pc = "sleep"
    /\ sleep_until = SweepInterval
    /\ current_time = 0
    /\ iter_len = 0
    /\ iter_todo = {}
    /\ expired = {}
    /\ mirror = "none"
    /\ pending = <<>>

\* The same, redis_client.ping() having succeeded at import: redis_client is
\* a client and the Redis server answers.
InitMirrored ==
    /\ devices = EmptyDict
    /\ sessions = EmptyDict
    /\ now = 0
    /\ connected = {}
    /\ rooms = [sid \in Sids |-> {}]
    /\ out = NoOutput
    /\ reaper_pc = "sleep"
    /\ sleep_until = SweepInterval
    /\ current_time = 0
    /\ iter_len = 0
    /\ iter_todo = {}
    /\ expired = {}
    /\ mirror = "up"
    /\ pending = <<>>

\* ---------------------------------------------------------- Redis server
\* The Redis server stops answering, or answers again.  Neither is a step of
\* the program: nothing is emitted.
MirrorFails ==
    /\ mirror = "up"
    /\ mirror' = "down"
    /\ out' = NoOutput
    /\ UNCHANGED <<registry_vars, now, transport_vars, reaper_vars, pending>>

MirrorRecovers ==
    /\ mirror = "down"
    /\ mirror' = "up"
    /\ out' = NoOutput
    /\ UNCHANGED <<registry_vars, now, transport_vars, reaper_vars, pending>>

\* What a handler leaves behind when an exception ends it: no reply.
Exception(handler) == [kind |-> "exception", handler |-> handler]

\* ----------------------------------------------------------------- clock
\* Time passes to a later reading of the clock.
Tick ==
    /\ \E t \in ClockReadings : t > now /\ now' = t
    /\ out' = NoOutput
    /\ UNCHANGED <<registry_vars, transport_vars, reaper_vars, mirror, pending>>

\* ------------------------------------------------------ Socket.IO events
\* @socketio.on('connect')
handle_connect(sid) ==
    /\ sid \notin connected
    /\ connected' = connected \cup {sid}
    /\ out' = [kind |-> "connected", to |-> sid]
    /\ UNCHANGED <<registry_vars, now, rooms, reaper_vars, mirror, pending>>

\* @socketio.on('disconnect'): the handler only logs.  Socket.IO itself
\* drops the connection from every room it had joined.
handle_disconnect(sid) ==
    /\ sid \in connected
    /\ connected' = connected \ {sid}
    /\ rooms' = [rooms EXCEPT ![sid] = {}]
    /\ out' = NoOutput
    /\ UNCHANGED <<registry_vars, now, reaper_vars, mirror, pending>>

\* @socketio.on('register_device')
handle_device_registration(sid, data) ==
    /\ sid \in connected
    /\ LET device_id == Get(data, "device_id", NoValue) IN
       IF Falsy(device_id)
       THEN /\ out' = [kind |-> "error", to |-> sid]
            /\ UNCHANGED <<registry_vars, rooms>>
       ELSE /\ devices' = register_device(devices, device_id, data, now)
            /\ IF MirrorRaises
               THEN /\ out' = Exception("register_device")
                    /\ UNCHANGED rooms
               ELSE /\ rooms' = [rooms EXCEPT ![sid] = @ \cup {device_id}]
                    /\ out' = [kind      |-> "device_registered",
                               to        |-> sid,
                               device_id |-> device_id,
                               servers   |-> get_available_servers(devices', now)]
            /\ UNCHANGED sessions
    /\ UNCHANGED <<now, connected, reaper_vars, mirror, pending>>

\* A relay that tests session_id only and emits to room "device_None" when
\* target_device is missing.
relay_checks_session_only(event, sid, data) ==
    /\ sid \in connected
    /\ LET session_id == Get(data, "session_id", NoValue)
           target_device == Get(data, "target_device", NoValue) IN
       IF Falsy(session_id)
       THEN out' = [kind |-> "error", to |-> sid]
       ELSE out' = [kind       |-> "relay",
                    event      |-> event,
                    origin     |-> sid,
                    data       |-> data,
                    recipients |-> RoomMembers(rooms, connected, target_device)]
    /\ UNCHANGED <<registry_vars, now, transport_vars, reaper_vars, mirror, pending>>

\* The common body of handle_webrtc_offer, handle_webrtc_answer and
\* handle_ice_candidate: emit(event, data, room="device_<target_device>").
relay(event, sid, data) ==
    /\ sid \in connected
    /\ LET session_id == Get(data, "session_id", NoValue)
           target_device == Get(data, "target_device", NoValue) IN
       IF Falsy(session_id) \/ Falsy(target_device)
       THEN out' = [kind |-> "error", to |-> sid]
       ELSE out' = [kind       |-> "relay",
                    event      |-> event,
                    origin     |-> sid,
                    data       |-> data,
                    recipients |-> RoomMembers(rooms, connected, target_device)]
    /\ UNCHANGED <<registry_vars, now, transport_vars, reaper_vars, mirror, pending>>

\* @socketio.on('webrtc_offer')
handle_webrtc_offer(sid, data) == relay("webrtc_offer", sid, data)

\* @socketio.on('webrtc_answer')
handle_webrtc_answer(sid, data) == relay("webrtc_answer", sid, data)

\* @socketio.on('ice_candidate')
handle_ice_candidate(sid, data) == relay("ice_candidate", sid, data)

\* The common body of handle_session_started and handle_session_ended.
session_event(status, sid, data) ==
    /\ sid \in connected
    /\ LET session_id == Get(data, "session_id", NoValue) IN
       IF Falsy(session_id)
       THEN /\ out' = NoOutput
            /\ UNCHANGED sessions
       ELSE /\ sessions' = update_session_status(sessions, session_id, status, now)
            /\ IF MirrorRaises /\ session_id \in DOMAIN sessions
               THEN out' = Exception("session_event")
               ELSE out' = [kind       |-> "session_status_updated",
                            to         |-> sid,
                            session_id |-> session_id,
                            status     |-> status]
    /\ UNCHANGED <<devices, now, transport_vars, reaper_vars, mirror, pending>>

\* @socketio.on('session_started')
handle_session_started(sid, data) == session_event("active", sid, data)

\* @socketio.on('session_ended')
handle_session_ended(sid, data) == session_event("ended", sid, data)

\* ------------------------------------------------------------ REST routes
\* GET /api/servers
get_servers ==
    /\ out' = [kind |-> "servers", code |-> 200,
               servers |-> get_available_servers(devices, now)]
    /\ UNCHANGED <<registry_vars, now, transport_vars, reaper_vars, mirror, pending>>

\* POST /api/start_session; uuid is what uuid.uuid4() returns if it is called.
start_session(data, uuid) ==
    /\ IF "device_id" \notin DOMAIN data
       THEN /\ out' = [kind |-> "start_session", code |-> 400]
            /\ UNCHANGED registry_vars
       ELSE LET device_id == data["device_id"]
                device_type == Get(data, "device_type", "client")
                registered == IF device_id \notin DOMAIN devices
                              THEN register_device(devices, device_id, data, now)
                              ELSE devices
            IN  IF MirrorRaises
                THEN /\ devices' = IF device_id \notin DOMAIN devices
                                   THEN registered
                                   ELSE update_device_status(devices, device_id, "online", now)
                     /\ out' = Exception("start_session")
                     /\ UNCHANGED sessions
                ELSE /\ devices' = update_device_status(registered, device_id, "online", now)
                     /\ IF device_type = "server"
                        THEN /\ sessions' = create_session(sessions, uuid, device_id, NoValue, now)
                             /\ out' = [kind |-> "start_session", code |-> 200,
                                        device_id |-> device_id, session_id |-> uuid]
                        ELSE /\ sessions' = sessions
                             /\ out' = [kind |-> "start_session", code |-> 200,
                                        device_id |-> device_id, session_id |-> NoValue]
    /\ UNCHANGED <<now, transport_vars, reaper_vars, mirror, pending>>

\* POST /api/start_session while other threads run, first part: the body is
\* accepted and the device is registered if it is not in the registry.
start_session_checked(data) ==
    /\ pending = <<>>
    /\ "device_id" \in DOMAIN data
    /\ LET device_id == data["device_id"] IN
       IF device_id \in DOMAIN devices
       THEN /\ pending' = <<data>>
            /\ out' = NoOutput
            /\ UNCHANGED devices
       ELSE /\ devices' = register_device(devices, device_id, data, now)
            /\ IF MirrorRaises
               THEN out' = Exception("start_session") /\ UNCHANGED pending
               ELSE out' = NoOutput /\ pending' = <<data>>
    /\ UNCHANGED <<sessions, now, transport_vars, reaper_vars, mirror>>

\* Second part, after steps of other threads: update_device_status, then
\* create_session for a server, then the response.
start_session_resumed(uuid) ==
    /\ pending # <<>>
    /\ LET data == pending[1]
           device_id == data["device_id"]
           device_type == Get(data, "device_type", "client")
       IN  /\ devices' = update_device_status(devices, device_id, "online", now)
           /\ IF MirrorRaises /\ device_id \in DOMAIN devices
              THEN /\ out' = Exception("start_session")
                   /\ UNCHANGED sessions
              ELSE IF device_type = "server"
              THEN /\ sessions' = create_session(sessions, uuid, device_id, NoValue, now)
                   /\ out' = [kind |-> "start_session", code |-> 200,
                              device_id |-> device_id, session_id |-> uuid]
              ELSE /\ sessions' = sessions
                   /\ out' = [kind |-> "start_session", code |-> 200,
                              device_id |-> device_id, session_id |-> NoValue]
    /\ pending' = <<>>
    /\ UNCHANGED <<now, transport_vars, reaper_vars, mirror>>

\* POST /api/stop_session (an empty body and a body without session_id
\* both answer 400).
stop_session(data) ==
    /\ LET session_id == Get(data, "session_id", NoValue) IN
       IF data = EmptyDict \/ Falsy(session_id)
       THEN /\ out' = [kind |-> "stop_session", code |-> 400]
            /\ UNCHANGED sessions
       ELSE IF get_session(sessions, session_id) = <<>>
       THEN /\ out' = [kind |-> "stop_session", code |-> 404]
            /\ UNCHANGED sessions
       ELSE /\ sessions' = update_session_status(sessions, session_id, "ended", now)
            /\ out' = IF MirrorRaises
                      THEN Exception("stop_session")
                      ELSE [kind |-> "stop_session", code |-> 200]
    /\ UNCHANGED <<devices, now, transport_vars, reaper_vars, mirror, pending>>

\* ------------------------------------------- cleanup thread, step by step
\* time.sleep(60) returns; current_time = time.time(); the comprehension
\* over self.devices.items() creates its iterator.
ReaperWake ==
    /\ reaper_pc = "sleep"
    /\ now >= sleep_until
    /\ current_time' = now
    /\ iter_len' = Cardinality(DOMAIN devices)
    /\ iter_todo' = DOMAIN devices
    /\ expired' = {}
    /\ reaper_pc' = "scan_devices"
    /\ out' = NoOutput
    /\ UNCHANGED <<registry_vars, now, transport_vars, sleep_until, mirror, pending>>

\* A dict iterator's next() raises RuntimeError when the dict's size is not
\* the size it had when the iterator was created.  Nothing in the thread
\* catches it: the thread ends.
ReaperDeviceIterRaises ==
    /\ reaper_pc = "scan_devices"
    /\ Cardinality(DOMAIN devices) # iter_len
    /\ reaper_pc' = "dead"
    /\ out' = NoOutput
    /\ UNCHANGED <<registry_vars, now, transport_vars,
                   sleep_until, current_time, iter_len, iter_todo, expired, mirror, pending>>

ReaperSessionIterRaises ==
    /\ reaper_pc = "scan_sessions"
    /\ Cardinality(DOMAIN sessions) # iter_len
    /\ reaper_pc' = "dead"
    /\ out' = NoOutput
    /\ UNCHANGED <<registry_vars, now, transport_vars,
                   sleep_until, current_time, iter_len, iter_todo, expired, mirror, pending>>

\* One next() of the iteration over self.devices.items(): the next item is
\* tested, or the iteration is exhausted and the list is complete.
ReaperScanDevice ==
    /\ reaper_pc = "scan_devices"
    /\ Cardinality(DOMAIN devices) = iter_len
    /\ IF iter_todo = {}
       THEN /\ reaper_pc' = "del_devices"
            /\ UNCHANGED <<iter_todo, expired>>
       ELSE /\ \E d \in iter_todo :
                 /\ iter_todo' = iter_todo \ {d}
                 /\ expired' = IF DeviceIsExpired(devices[d], current_time)
                               THEN expired \cup {d} ELSE expired
            /\ UNCHANGED reaper_pc
    /\ out' = NoOutput
    /\ UNCHANGED <<registry_vars, now, transport_vars,
                   sleep_until, current_time, iter_len, mirror, pending>>

\* One turn of "for device_id in expired_devices: del self.devices[...]";
\* after the last one the comprehension over self.sessions.items() starts.
ReaperDelDevice ==
    /\ reaper_pc = "del_devices"
    /\ IF expired = {}
       THEN /\ reaper_pc' = "scan_sessions"
            /\ iter_len' = Cardinality(DOMAIN sessions)
            /\ iter_todo' = DOMAIN sessions
            /\ UNCHANGED <<devices, expired>>
       ELSE /\ \E d \in expired :
                 /\ expired' = expired \ {d}
                 /\ IF d \in DOMAIN devices
                    THEN /\ devices' = Del(devices, d)
                         /\ reaper_pc' = IF MirrorRaises THEN "dead" ELSE reaper_pc
                    ELSE reaper_pc' = "dead" /\ UNCHANGED devices
            /\ UNCHANGED <<iter_len, iter_todo>>
    /\ out' = NoOutput
    /\ UNCHANGED <<sessions, now, transport_vars, sleep_until, current_time, mirror, pending>>

\* One next() of the iteration over self.sessions.items().
ReaperScanSession ==
    /\ reaper_pc = "scan_sessions"
    /\ Cardinality(DOMAIN sessions) = iter_len
    /\ IF iter_todo = {}
       THEN /\ reaper_pc' = "del_sessions"
            /\ UNCHANGED <<iter_todo, expired>>
       ELSE /\ \E s \in iter_todo :
                 /\ iter_todo' = iter_todo \ {s}
                 /\ expired' = IF SessionIsExpired(sessions[s], current_time)
                               THEN expired \cup {s} ELSE expired
            /\ UNCHANGED reaper_pc
    /\ out' = NoOutput
    /\ UNCHANGED <<registry_vars, now, transport_vars,
                   sleep_until, current_time, iter_len, mirror, pending>>

\* A delete loop that marks an expired session 'ended' and keeps its record.
ReaperDelSession_marks_ended ==
    /\ reaper_pc = "del_sessions"
    /\ IF expired = {}
       THEN /\ reaper_pc' = "sleep"
            /\ sleep_until' = now + SweepInterval
            /\ UNCHANGED <<sessions, expired>>
       ELSE /\ \E s \in expired :
                 /\ expired' = expired \ {s}
                 /\ IF s \in DOMAIN sessions
                    THEN /\ sessions' = [sessions EXCEPT ![s].status = "ended"]
                         /\ reaper_pc' = IF MirrorRaises THEN "dead" ELSE reaper_pc
                    ELSE reaper_pc' = "dead" /\ UNCHANGED sessions
            /\ UNCHANGED sleep_until
    /\ out' = NoOutput
    /\ UNCHANGED <<devices, now, transport_vars, current_time, iter_len, iter_todo, mirror, pending>>

\* One turn of "for session_id in expired_sessions: del self.sessions[...]";
\* after the last one the loop goes back to time.sleep(60).
ReaperDelSession ==
    /\ reaper_pc = "del_sessions"
    /\ IF expired = {}
       THEN /\ reaper_pc' = "sleep"
            /\ sleep_until' = now + SweepInterval
            /\ UNCHANGED <<sessions, expired>>
       ELSE /\ \E s \in expired :
                 /\ expired' = expired \ {s}
                 /\ IF s \in DOMAIN sessions
                    THEN /\ sessions' = Del(sessions, s)
                         /\ reaper_pc' = IF MirrorRaises THEN "dead" ELSE reaper_pc
                    ELSE reaper_pc' = "dead" /\ UNCHANGED sessions
            /\ UNCHANGED sleep_until
    /\ out' = NoOutput
    /\ UNCHANGED <<devices, now, transport_vars, current_time, iter_len, iter_todo, mirror, pending>>

\* The part of a sweep that handles self.devices, then the part that
\* handles self.sessions.
ReaperDeviceStep ==
    \/ ReaperWake
    \/ ReaperDeviceIterRaises
    \/ ReaperScanDevice
    \/ ReaperDelDevice

ReaperSessionStep ==
    \/ ReaperSessionIterRaises
    \/ ReaperScanSession
    \/ ReaperDelSession

ReaperStep == ReaperDeviceStep \/ ReaperSessionStep

\* ------------------------------------------------------------------ Next
Next ==
    \/ Tick
    \/ \E sid \in Sids : handle_connect(sid)
    \/ \E sid \in Sids : handle_disconnect(sid)
    \/ \E sid \in Sids, data \in RegisterData : handle_device_registration(sid, data)
    \/ \E sid \in Sids, data \in RelayData : handle_webrtc_offer(sid, data)
    \/ \E sid \in Sids, data \in RelayData : handle_webrtc_answer(sid, data)
    \/ \E sid \in Sids, data \in RelayData : handle_ice_candidate(sid, data)
    \/ \E sid \in Sids, data \in SessionData : handle_session_started(sid, data)
    \/ \E sid \in Sids, data \in SessionData : handle_session_ended(sid, data)
    \/ get_servers
    \/ \E data \in StartData, uuid \in SessionIds : start_session(data, uuid)
    \/ \E data \in StartData : start_session_checked(data)
    \/ \E uuid \in SessionIds : start_session_resumed(uuid)
    \/ \E data \in SessionData : stop_session(data)
    \/ ReaperStep
    \/ MirrorFails
    \/ MirrorRecovers

\* The whole server, with or without a Redis client.  Its state space is the
\* product of those of the components below, which are the specifications
\* that are model-checked.
Spec == (Init \/ InitMirrored) /\ [][Next]_vars

\* ------------------------------------------------- component specifications
\* Each one starts in Init or in InitMirrored and takes a subset of the
\* steps of Next, with the events drawn from subsets of the input sets:
\* every behaviour of a component specification is a behaviour of Spec.

\* Signaling relay: connections, registrations, sessions opened over REST
\* (uuid4 returning "s1"; "s2" stays an unknown session id) and the three
\* relay events.  The clock stands at 0, so the cleanup thread sleeps.
NextRelay ==
    \/ \E sid \in Sids : handle_connect(sid)
    \/ \E sid \in Sids : handle_disconnect(sid)
    \/ \E sid \in Sids, data \in RegisterData : handle_device_registration(sid, data)
    \/ \E data \in StartData : start_session(data, "s1")
    \/ \E sid \in Sids, data \in RelayData : handle_webrtc_offer(sid, data)
    \/ \E sid \in Sids, data \in RelayData : handle_webrtc_answer(sid, data)
    \/ \E sid \in Sids, data \in RelayData : handle_ice_candidate(sid, data)

SpecRelay == Init /\ [][NextRelay]_vars

\* Session lifecycle: two connections, registrations, and every event and
\* route that creates a session or sets its status; uuid4 returns an
\* identifier that is not in use.  The clock stands at 0.
SessionSids == {"c1", "c2"}

NextSession ==
    \/ \E sid \in SessionSids : handle_connect(sid)
    \/ \E sid \in SessionSids : handle_disconnect(sid)
    \/ \E sid \in SessionSids, data \in RegisterData : handle_device_registration(sid, data)
    \/ \E sid \in SessionSids, data \in SessionData : handle_session_started(sid, data)
    \/ \E sid \in SessionSids, data \in SessionData : handle_session_ended(sid, data)
    \/ \E data \in StartData, uuid \in SessionIds \ DOMAIN sessions :
          start_session(data, uuid)
    \/ \E data \in SessionData : stop_session(data)

SpecSession == Init /\ [][NextSession]_vars

\* Device liveness: one connection, the clock, every step that writes
\* self.devices (start_session bodies of device_type 'client', which open no
\* session), the listing and the cleanup thread.
StartClientData == {data \in StartData : Get(data, "device_type", "client") # "server"}

NextDevices ==
    \/ Tick
    \/ handle_connect("c1")
    \/ handle_disconnect("c1")
    \/ \E data \in RegisterData : handle_device_registration("c1", data)
    \/ \E data \in StartClientData : start_session(data, "s1")
    \/ get_servers
    \/ ReaperDeviceStep
    \/ ReaperScanSession
    \/ ReaperDelSession

SpecDevices == Init /\ [][NextDevices]_vars

\* The cleanup thread is a thread of its own: while it can take a step it
\* eventually takes one.
FairSpecDevices ==
    SpecDevices /\ WF_vars(ReaperDeviceStep \/ ReaperScanSession \/ ReaperDelSession)

\* Session expiry: the clock, sessions opened and stopped over REST (uuid4
\* returning "s1") and the cleanup thread.
NextSessionExpiry ==
    \/ Tick
    \/ \E data \in StartData : start_session(data, "s1")
    \/ \E data \in SessionData : stop_session(data)
    \/ ReaperStep

SpecSessionExpiry == Init /\ [][NextSessionExpiry]_vars

\* Session activity: the clock going from 0 to its next reading, a connection
\* "c1" that registers devices and a connection "c2" that sends the three
\* relay events and the two session events; sessions are opened over REST
\* (uuid4 returning "s1"; "s2" stays an unknown session id).
NextActivity ==
    \/ Tick /\ now' <= FreshWindow
    \/ \E sid \in SessionSids : handle_connect(sid)
    \/ \E data \in RegisterData : handle_device_registration("c1", data)
    \/ \E data \in StartData : start_session(data, "s1")
    \/ \E data \in RelayData : handle_webrtc_offer("c2", data)
    \/ \E data \in RelayData : handle_webrtc_answer("c2", data)
    \/ \E data \in RelayData : handle_ice_candidate("c2", data)
    \/ \E data \in SessionData : handle_session_started("c2", data)
    \/ \E data \in SessionData : handle_session_ended("c2", data)

SpecActivity == Init /\ [][NextActivity]_vars

\* Mirror failures: redis_client is a client, the Redis server stops and
\* resumes answering, one connection sends registrations and session events,
\* sessions are opened and stopped over REST (uuid4 returning "s1"); the
\* clock goes from 0 to its next reading, so the cleanup thread finds
\* nothing to delete and is left out.
NextMirror ==
    \/ MirrorFails
    \/ MirrorRecovers
    \/ Tick /\ now' <= FreshWindow
    \/ handle_connect("c1")
    \/ \E data \in RegisterData : handle_device_registration("c1", data)
    \/ \E data \in SessionData : handle_session_started("c1", data)
    \/ \E data \in SessionData : handle_session_ended("c1", data)
    \/ \E data \in StartData : start_session(data, "s1")
    \/ \E data \in SessionData : stop_session(data)

SpecMirror == InitMirrored /\ [][NextMirror]_vars

\* Touching a device while the cleanup thread sweeps: start_session requests
\* in two parts (uuid4 returning "s1"), with steps of the clock, of the
\* cleanup thread and of the Redis server in between.
TouchData == [device_id : DeviceIds, device_type : {"server"}] \cup [device_id : DeviceIds]

NextTouch ==
    \/ Tick
    \/ \E data \in TouchData : start_session_checked(data)
    \/ start_session_resumed("s1")
    \/ ReaperStep
    \/ MirrorFails
    \/ MirrorRecovers

SpecTouch == InitMirrored /\ [][NextTouch]_vars

\* ================================================================== claims

\* ------------------------------------------------------------------- C1
\* The connections that registered device d and nothing else.
EndpointsOf(d) == {sid \in connected : rooms[sid] = {d}}

\* The last step relayed an event of an existing session from the
\* connection of the session's server device to another registered device
\* that has a connection of its own.
RelayBetweenSessionDevices ==
    /\ out.kind = "relay"
    /\ out.data.session_id \in DOMAIN sessions
    /\ LET server == sessions[out.data.session_id].server_id
           target == out.data.target_device
       IN  /\ server \in DOMAIN devices
           /\ target \in DOMAIN devices
           /\ target # server
           /\ out.origin \in EndpointsOf(server)
           /\ EndpointsOf(target) # {}

\* C1: a relay event sent for a session between its two registered, connected
\* devices is delivered, unmodified, to the peer's channel and to no other
\* endpoint: exactly one connection receives it, and it is not the sender.
C1_RelayOnlyToPeer ==
    RelayBetweenSessionDevices =>
        /\ Cardinality(out.recipients) = 1
        /\ out.origin \notin out.recipients

\* ------------------------------------------------------------------- C2
\* The connection sid speaks for a bound member of session s.
IsMember(sid, s) ==
    \E d \in rooms[sid] : d \in {sessions[s].server_id, sessions[s].client_id}

\* C2: a relay event whose session_id is not in the registry, or whose origin
\* is not one of the session's two bound members, is rejected: its payload
\* reaches no connection.
C2_RelayRejectedUnlessMember ==
    (out.kind = "relay" /\ out.recipients # {}) =>
        /\ out.data.session_id \in DOMAIN sessions
        /\ IsMember(out.origin, out.data.session_id)

\* ------------------------------------------------------------------- C3
\* Session s is active and one of its devices is registered on connection sid.
BoundActive(sid, s) ==
    /\ sessions[s].status = "active"
    /\ \E d \in rooms[sid] : d \in {sessions[s].server_id, sessions[s].client_id}

\* C3: when the connection of a device bound into an 'active' session
\* disconnects, the step leaves that session 'ended'.
C3_DisconnectEndsSession ==
    [][\A sid \in Sids :
          (sid \in connected /\ sid \notin connected') =>
              \A s \in DOMAIN sessions :
                  BoundActive(sid, s) =>
                      (s \in DOMAIN sessions' /\ sessions'[s].status = "ended")]_vars

\* ------------------------------------------------------------------- C4
\* C4: 'ended' is terminal: a session whose status is 'ended' keeps that
\* status for as long as it is in the registry.
C4_EndedIsTerminal ==
    [][\A s \in DOMAIN sessions :
          (sessions[s].status = "ended" /\ s \in DOMAIN sessions') =>
              sessions'[s].status = "ended"]_vars

\* ------------------------------------------------------------------- C5
\* The sessions, not ended, that device d is bound into.
LiveSessionsOf(d) ==
    {s \in DOMAIN sessions :
        /\ sessions[s].status # "ended"
        /\ d \in {sessions[s].server_id, sessions[s].client_id}}

\* C5: every device is the server_id or client_id of at most one session
\* whose status is not 'ended'.
C5_OneLiveSessionPerDevice ==
    \A d \in DeviceIds : Cardinality(LiveSessionsOf(d)) <= 1

\* ------------------------------------------------------------------- C6
\* C6: the server_id of a session never changes while the session is in the
\* registry.
C6_ServerBindingNeverChanges ==
    [][\A s \in DOMAIN sessions \cap DOMAIN sessions' :
          sessions'[s].server_id = sessions[s].server_id]_vars

\* ------------------------------------------------------------------- C7
\* The capabilities a registration declares: 'client' alone when the event
\* has no capabilities field.
DeclaredCapabilities(data) ==
    IF "capabilities" \in DOMAIN data THEN data["capabilities"] ELSE {"client"}

\* C7: the listing of available servers taken right after a registration (the
\* available_servers reply of the register_device event) contains the
\* registered device if and only if its declared capabilities contain
\* 'server'.
C7_RegisteredListedIffServer ==
    [][\A sid \in Sids, data \in RegisterData :
          ("device_id" \in DOMAIN data /\ handle_device_registration(sid, data)) =>
              ((\E e \in out'.servers : e.id = data["device_id"])
                  <=> "server" \in DeclaredCapabilities(data))]_vars

\* A registration has just been answered with a listing that contains the
\* registered device.
C7_Witness ==
    /\ out.kind = "device_registered"
    /\ \E e \in out.servers : e.id = out.device_id

\* ------------------------------------------------------------------- C8
\* C8: a listing of available servers (GET /api/servers, or the
\* available_servers reply) contains only devices that are in the registry
\* with status 'online' and a last_seen not older than the freshness window.
C8_ListingOnlyFreshOnline ==
    out.kind \in {"servers", "device_registered"} =>
        \A e \in out.servers :
            /\ e.id \in DOMAIN devices
            /\ devices[e.id].status = "online"
            /\ ~(now - devices[e.id].last_seen > FreshWindow)

\* GET /api/servers has just left out a server-capable device that is still
\* in the registry, its last_seen older than the freshness window.
C8_Witness ==
    /\ out.kind = "servers"
    /\ \E d \in DOMAIN devices :
          /\ "server" \in devices[d].capabilities
          /\ now - devices[d].last_seen > FreshWindow
          /\ \A e \in out.servers : e.id # d

\* ------------------------------------------------------------------- C9
\* A sweep has taken its current_time and device d is past the expiry
\* threshold at that time.
SweepStartedOnStale(d) ==
    /\ reaper_pc = "scan_devices"
    /\ d \in DOMAIN devices
    /\ DeviceIsExpired(devices[d], current_time)

\* Device d is gone, or has been registered or touched again.
RemovedOrTouched(d) ==
    d \in DOMAIN devices => ~DeviceIsExpired(devices[d], current_time)

\* C9: with the cleanup thread scheduled fairly, a device that is past the
\* expiry threshold when a sweep starts, and is not touched, is eventually
\* removed.
C9_StaleDeviceEventuallyRemoved ==
    \A d \in DeviceIds : SweepStartedOnStale(d) ~> RemovedOrTouched(d)

\* ------------------------------------------------------------------ C10
\* C10: when a sweep has completed, the registry holds no session that was
\* 'ended' when the sweep started (ended, and not written since), and no
\* session whose last_activity was older than the session-expiry threshold.
C10_SweepRemovesEndedAndStale ==
    reaper_pc = "sleep" =>
        \A s \in DOMAIN sessions :
            /\ ~(sessions[s].status = "ended" /\ sessions[s].last_activity < current_time)
            /\ ~SessionIsExpired(sessions[s], current_time)

\* ------------------------------------------------------------------ C11
\* C11: a relay event that was delivered for a session of the registry leaves
\* that session's last_activity at the current time.
C11_RelayRefreshesActivity ==
    (/\ out.kind = "relay"
     /\ out.recipients # {}
     /\ out.data.session_id \in DOMAIN sessions) =>
        sessions[out.data.session_id].last_activity = now

\* ------------------------------------------------------------------ C12
\* C12: a relay event never completes with neither a delivery to the target
\* nor an error to the origin: when the room of the target device is empty
\* the origin is sent an error, so a step that emits the relayed event has
\* at least one recipient.
C12_RelayDeliversOrReportsError ==
    out.kind = "relay" => out.recipients # {}

\* ------------------------------------------------------------------ C14
\* C14: the cleanup thread never stops: no interleaving of a sweep with
\* registrations that insert into the map being scanned ends the thread.
C14_ReaperNeverStops ==
    reaper_pc # "dead"

\* ------------------------------------------------------------------ C15
\* C15: a start_session call that reports a new session has allocated a
\* session id that was not in the registry, so the number of sessions has
\* grown by exactly one and no existing record was overwritten.
C15_CreateSessionAddsOne ==
    [][(/\ out'.kind = "start_session"
        /\ out'.code = 200
        /\ out'.session_id # NoValue) =>
           /\ out'.session_id \notin DOMAIN sessions
           /\ Cardinality(DOMAIN sessions') = Cardinality(DOMAIN sessions) + 1]_vars

\* ------------------------------------------------------------------ C19
\* C19: a device that a step removes from the registry is past the
\* device-expiry threshold at the moment of the deletion.
C19_OnlyStaleDevicesRemoved ==
    [][\A d \in DOMAIN devices :
          d \notin DOMAIN devices' => now - devices[d].last_seen > DeviceExpiry]_vars

\* ------------------------------------------------------------------ C17
\* C17: a step of the cleanup thread only removes entries: the device ids
\* and the session ids after the step are among those before it, every
\* surviving record is what it was, and the step emits nothing and leaves
\* every connection and room alone.
C17_ReaperOnlyRemoves ==
    [][ReaperStep =>
          /\ DOMAIN devices' \subseteq DOMAIN devices
          /\ \A d \in DOMAIN devices' : devices'[d] = devices[d]
          /\ DOMAIN sessions' \subseteq DOMAIN sessions
          /\ \A s \in DOMAIN sessions' : sessions'[s] = sessions[s]
          /\ out' = NoOutput
          /\ UNCHANGED transport_vars]_vars

\* The delete loop of a sweep has removed a device (the registry holds fewer
\* devices than the scan went over) and another device has survived.
C17_Witness ==
    /\ reaper_pc = "del_devices"
    /\ iter_len > Cardinality(DOMAIN devices)
    /\ devices # EmptyDict

\* ------------------------------------------------------------------ C20
\* A relay event that lacks session_id or target_device.
LacksField(data) ==
    \/ Falsy(Get(data, "session_id", NoValue))
    \/ Falsy(Get(data, "target_device", NoValue))

MalformedRelayData == {data \in RelayData : LacksField(data)}

\* C20: a webrtc_offer, webrtc_answer or ice_candidate event that lacks
\* session_id or target_device is answered with an error to its sender and
\* nothing else happens; a session_started or session_ended event naming a
\* session id that is not in the registry leaves the sessions (no record is
\* created) and the devices as they were.
C20_MalformedEventsChangeNothing ==
    [][/\ \A sid \in connected, data \in MalformedRelayData :
             (\/ handle_webrtc_offer(sid, data)
              \/ handle_webrtc_answer(sid, data)
              \/ handle_ice_candidate(sid, data)) =>
                (/\ out' = [kind |-> "error", to |-> sid]
                 /\ UNCHANGED <<registry_vars, transport_vars>>)
       /\ \A sid \in connected, data \in SessionData :
             (/\ "session_id" \in DOMAIN data
              /\ data["session_id"] \notin DOMAIN sessions
              /\ \/ handle_session_started(sid, data)
                 \/ handle_session_ended(sid, data)) =>
                UNCHANGED registry_vars]_vars

\* A session event naming a session id that is not in the registry has just
\* been handled, while the registry holds another session.
C20_Witness ==
    /\ out.kind = "session_status_updated"
    /\ out.session_id \notin DOMAIN sessions
    /\ sessions # EmptyDict

\* ------------------------------------------------------------------ C13
\* C13: a mirror write that fails never makes a handler fail or stop partway:
\* no register_device, session_started or session_ended event and no
\* start_session or stop_session request ends in an exception.
C13_MirrorFailureNeverFailsHandler ==
    out.kind # "exception"

\* ------------------------------------------------------------------ C16
\* Session s after the step is session s before it with status 'ended':
\* server_id, client_id and created_at are what they were.
EndedOnly(s) ==
    /\ sessions'[s].status = "ended"
    /\ sessions'[s].server_id = sessions[s].server_id
    /\ sessions'[s].client_id = sessions[s].client_id
    /\ sessions'[s].created_at = sessions[s].created_at

\* C16: stop_session answers 400 and changes nothing when the body or its
\* session_id is missing, answers 404 and changes nothing when session_id
\* names no session of the registry, and otherwise sets that session's status
\* to 'ended', leaves its other fields, every other session and every device
\* as they were, and answers success.
C16_StopSessionContract ==
    [][\A data \in SessionData :
          stop_session(data) =>
              IF "session_id" \notin DOMAIN data
              THEN /\ out' = [kind |-> "stop_session", code |-> 400]
                   /\ UNCHANGED registry_vars
              ELSE IF data["session_id"] \notin DOMAIN sessions
              THEN /\ out' = [kind |-> "stop_session", code |-> 404]
                   /\ UNCHANGED registry_vars
              ELSE /\ out' = [kind |-> "stop_session", code |-> 200]
                   /\ DOMAIN sessions' = DOMAIN sessions
                   /\ EndedOnly(data["session_id"])
                   /\ \A s \in DOMAIN sessions \ {data["session_id"]} :
                         sessions'[s] = sessions[s]
                   /\ UNCHANGED devices]_vars

====
